---------------------------- MODULE Spec2Model ----------------------------
(***************************************************************************)
(* The Compressor DSP class of AudioPluginDemo/Source/Compressor.h as a    *)
(* state machine.                                                          *)
(*                                                                         *)
(* Numbers.  The class computes in IEEE single precision.  The model       *)
(* computes in fixed point, with round-to-nearest after every              *)
(* multiplication and division, as the FPU does:                           *)
(*   - decibels, the ratio and the times in milliseconds are integers in   *)
(*     units of 1/Milli  (threshold -20 dB is -20000);                     *)
(*   - linear quantities (sample amplitudes, the linear gain, the two      *)
(*     smoothing coefficients) are integers in units of 1/One              *)
(*     (amplitude 1.0 is 1000000, coefficient 0.001 is 1000);              *)
(*   - the sample rate is an integer number of Hz.                         *)
(* Every intermediate value stays below 2^31.                              *)
(* A float argument that is not finite is a record whose kind is not       *)
(* "finite"; parameters are finite floats throughout.                      *)
(***************************************************************************)
EXTENDS Integers, Sequences, FiniteSets, TLC

Milli == 1000
One == 1000000

Abs(x) == IF x < 0 THEN -x ELSE x
Sgn(x) == IF x < 0 THEN -1 ELSE IF x > 0 THEN 1 ELSE 0
Max(a, b) == IF a < b THEN b ELSE a      \* std::max(a, b): (a < b) ? b : a
Min(a, b) == IF b < a THEN b ELSE a      \* std::min(a, b): (b < a) ? b : a

\* juce::jlimit(lowerLimit, upperLimit, valueToConstrain)
jlimit(lo, hi, v) == IF v < lo THEN lo ELSE IF hi < v THEN hi ELSE v

\* round(a / b) for a >= 0, b > 0, to nearest
RDivNat(a, b) == (2 * a + b) \div (2 * b)
\* round(a / b) for any a, b > 0 (sign and magnitude, as IEEE rounding is)
RDiv(a, b) == Sgn(a) * RDivNat(Abs(a), b)

\* round(a * b / One) for a, b >= 0 without leaving 32 bits:
\* a = a1*1000 + a0, b = b1*1000 + b0 (a function, so that its arguments are
\* evaluated once)
FMulNatOf[a \in Nat, b \in Nat] ==
    LET a1 == a \div 1000
        a0 == a % 1000
        b1 == b \div 1000
        b0 == b % 1000
        mid == a1 * b0 + a0 * b1
        m1 == mid \div 1000
        m0 == mid % 1000
    IN a1 * b1 + m1 + (m0 * 1000 + a0 * b0 + 500000) \div 1000000
FMulNat(a, b) == FMulNatOf[a, b]
\* the float product of two linear quantities (or of one and a value in 1/Milli)
FMul(a, b) == Sgn(a) * Sgn(b) * FMulNat(Abs(a), Abs(b))

Pow10(k) == CASE k = 0 -> 1 [] k = 1 -> 10 [] k = 2 -> 100 [] k = 3 -> 1000
              [] k = 4 -> 10000 [] k = 5 -> 100000 [] k = 6 -> 1000000

\* round(a * 10^k / c) for a >= 0, 0 < c < 2 * 10^8, by long division
RECURSIVE DivPow10(_, _, _)
DivPow10(a, c, k) ==
    IF k = 0 THEN RDivNat(a, c)
    ELSE (a \div c) * Pow10(k) + DivPow10((a % c) * 10, c, k - 1)

\* round(a * One / b) for a >= 0, 0 < b < 2 * 10^8: the float quotient of two
\* linear quantities
FDivNat(a, b) == DivPow10(a, b, 6)

\* round(a * b / c) for a, b >= 0, 0 < c, (c - 1) * b < 2^30
MulDivNat(a, b, c) == (a \div c) * b + RDivNat((a % c) * b, c)

(***************************************************************************)
(* The libm functions.  10^(g/20) is the product of one table entry per    *)
(* decimal digit of g; log10 is its inverse; expf is its Taylor series     *)
(* with argument halving; tanh is (1 - e^-2y) / (1 + e^-2y).               *)
(***************************************************************************)
\* 10^(r/20), 10^(d/200), 10^(d/2000), 10^(d/20000) in units of 1/One
Pow10Db == <<1000000, 1122018, 1258925, 1412538, 1584893, 1778279, 1995262,
             2238721, 2511886, 2818383, 3162278, 3548134, 3981072, 4466836,
             5011872, 5623413, 6309573, 7079458, 7943282, 8912509>>
Pow10Tenth == <<1000000, 1011579, 1023293, 1035142, 1047129, 1059254,
                1071519, 1083927, 1096478, 1109175>>
Pow10Hundredth == <<1000000, 1001152, 1002305, 1003460, 1004616, 1005773,
                    1006932, 1008092, 1009253, 1010416>>
Pow10Thousandth == <<1000000, 1000115, 1000230, 1000345, 1000461, 1000576,
                     1000691, 1000806, 1000921, 1001037>>

\* powf(10.0f, g / 20.0f) for g in 1/Milli dB, -120 dB <= g <= 40 dB
DbToLin(g) ==
    LET q == g \div 20000
        rem == g % 20000
        mant == FMulNat(FMulNat(Pow10Db[(rem \div 1000) + 1],
                                Pow10Tenth[((rem % 1000) \div 100) + 1]),
                        FMulNat(Pow10Hundredth[((rem % 100) \div 10) + 1],
                                Pow10Thousandth[(rem % 10) + 1]))
    IN IF q >= 0 THEN mant * Pow10(q) ELSE RDivNat(mant, Pow10(-q))

\* the largest g in lo .. hi with DbToLin(g) <= a, given DbToLin(lo) <= a
RECURSIVE LinToDbIn(_, _, _)
LinToDbIn(a, lo, hi) ==
    IF lo = hi THEN lo
    ELSE LET mid == (lo + hi + 1) \div 2
         IN IF DbToLin(mid) <= a THEN LinToDbIn(a, mid, hi)
            ELSE LinToDbIn(a, lo, mid - 1)

\* 20.0f * log10f(a) for an amplitude a >= 1/One, in 1/Milli dB
LinToDb(a) == LinToDbIn(a, -120 * Milli, 40 * Milli)

\* the Taylor series of e^-x from term number k on, term being x^k / k!
RECURSIVE ExpNegSeries(_, _, _)
ExpNegSeries(x, term, k) ==
    IF term = 0 THEN 0
    ELSE term - ExpNegSeries(x, RDivNat(FMulNat(term, x), k + 1), k + 1)

\* expf(-x) for x >= 0 in units of 1/One
RECURSIVE ExpNeg(_)
ExpNeg(x) ==
    IF x > 16 * One THEN 0
    ELSE IF x > One THEN LET h == ExpNeg(x \div 2) IN FMulNat(h, h)
    ELSE ExpNegSeries(x, One, 0)

\* std::tanh(y) for y in units of 1/One
Tanh(y) ==
    LET e == ExpNeg(IF Abs(y) > 8 * One THEN 16 * One ELSE 2 * Abs(y))
    IN Sgn(y) * FDivNat(One - e, One + e)

(***************************************************************************)
(* Bounds of the model                                                     *)
(***************************************************************************)
\* how many processSample calls a behaviour makes
MaxSamples == 2

(***************************************************************************)
(* Float arguments of processSample.  kind "finite": the amplitude v in    *)
(* units of 1/One.  kind "fltmax": +/-FLT_MAX (v is the sign), the finite  *)
(* float whose product with a gain above 1 overflows.  kind "inf": +/-Inf  *)
(* (v is the sign).  kind "nan": NaN.                                      *)
(***************************************************************************)
Fin(v) == [kind |-> "finite", v |-> v]
FltMax(sign) == [kind |-> "fltmax", v |-> sign]
Inf(sign) == [kind |-> "inf", v |-> sign]
NaN == [kind |-> "nan", v |-> 0]

\* std::isfinite
isfinite(x) == x.kind \in {"finite", "fltmax"}

(***************************************************************************)
(* The calls a client makes.  Parameters are finite floats, in and out of  *)
(* their documented ranges.                                                *)
(***************************************************************************)
\* Compressor() (18, 296-300) and Compressor(t, r, a, rel, m) (21-29)
CtorArgs == { <<-20 * Milli, 4 * Milli, 10 * Milli, 100 * Milli, 0>>,
              <<-30 * Milli, 500, 0, -5 * Milli, 6 * Milli>> }
SetParametersArgs == { <<-30 * Milli, 500, 0, -5 * Milli, 6 * Milli>> }
ThresholdArgs == { -30 * Milli }
RatioArgs == { 500 }
AttackArgs == { 0 }
ReleaseArgs == { -5 * Milli }
MakeupGainArgs == { 30 * Milli }
PresetArgs == { -1, 0, 8 }
NormalizedArgs == { <<500, 0, 0, 0, 600>> }
\* normalized values between 0 and 1, the ends included: a grid for
\* threshold and ratio, and the (0.5, 0, 0, 0, 0) of the documentation with
\* attack and makeup varied
NormValues == { 0, 500, 1000 }
NormTuples ==
    { <<t, r, 0, 0, 0>> : t \in NormValues, r \in NormValues }
      \cup { <<500, 0, a, 0, m>> : a \in { 0, 1000 }, m \in NormValues }
SampleRateArgs == { 0, 44100 }
\* a normalized value scaled by the width of its range, the lower end left out
DenormalizedFromZero(norm, lo, span) == RDiv(norm * span, Milli)
\* the value updateFromNormalizedParameters (284-288) stores for a normalized one
Denormalized(norm, lo, span) == lo + RDiv(norm * span, Milli)
\* every attack or release time these calls can store
TimeArgs ==
    { c[3] : c \in CtorArgs \cup SetParametersArgs }
      \cup { c[4] : c \in CtorArgs \cup SetParametersArgs }
      \cup AttackArgs \cup ReleaseArgs
      \cup { Denormalized(n[3], 100, 399900) :
                 n \in NormalizedArgs \cup NormTuples }
      \cup { Denormalized(n[4], 1 * Milli, 399 * Milli) :
                 n \in NormalizedArgs \cup NormTuples }
Samples == { Fin(0), Fin(50000), Fin(One), Fin(-One), FltMax(1),
             Inf(1), NaN }

(***************************************************************************)
(* The state of one Compressor (Compressor.h, 296-308), the value the last *)
(* call returned, and history variables for stating the properties.        *)
(***************************************************************************)
VARIABLES
    threshold,      \* dB
    ratio,          \* compression ratio
    attack,         \* milliseconds
    release,        \* milliseconds
    makeupGain,     \* dB
    attackCoeff,
    releaseCoeff,
    envelope,       \* current gain reduction, dB
    sampleRate,     \* Hz
    lastCall,       \* history: the name of the last method called
    lastInput,      \* history: the argument of the last processSample
    ret,            \* the float the last call returned (0 for a void method)
    prepared,       \* history: prepareToPlay has been called
    nSamples,       \* history: the number of samples processed so far
    targetGainReduction,  \* history: that local (82) of the last sample
    lastNorm,       \* history: the arguments of the last
                    \* updateFromNormalizedParameters
    buffer,         \* the caller's AudioBuffer as processBuffer left it
    bufferIn,       \* history: that buffer as processBuffer found it
    control,        \* the control thread: where it is in a setter, its locals
    audio,          \* the audio thread: where it is in processSample, its
                    \* locals
    state           \* the plugin's host parameters (part_000, 74-79), as the
                    \* normalized values getValue() returns

params == <<threshold, ratio, attack, release, makeupGain>>
coeffs == <<attackCoeff, releaseCoeff>>
\* the members processSample reads, the envelope apart
members == <<threshold, ratio, attackCoeff, releaseCoeff, makeupGain>>
hist == <<lastCall, lastInput, ret, prepared, nSamples, targetGainReduction,
          lastNorm, bufferIn>>
vars == <<threshold, ratio, attack, release, makeupGain, attackCoeff,
          releaseCoeff, envelope, sampleRate, lastCall, lastInput, ret,
          prepared, nSamples, targetGainReduction,
          lastNorm, buffer, bufferIn, control, audio, state>>

NoInput == Fin(0)

\* a thread that is in no method
ControlIdle == [pc |-> "idle", writes |-> <<>>, update |-> FALSE,
                attackSamples |-> 0, releaseSamples |-> 0]
AudioIdle == [pc |-> "idle", input |-> NoInput, overThreshold |-> 0,
              gainReduction |-> 0, coeffReadAt |-> "idle"]

\* what a void method leaves in the history variables
Called(name) ==
    /\ lastCall' = name
    /\ lastInput' = NoInput
    /\ ret' = 0
    /\ nSamples' = nSamples
    /\ targetGainReduction' = 0
    /\ lastNorm' = <<>>
    /\ UNCHANGED <<buffer, bufferIn, control, audio, state>>

(***************************************************************************)
(* updateCoefficients (245-266)                                            *)
(***************************************************************************)
\* time * 0.001f * static_cast<float>(sampleRate), in 1/Milli samples
TimeInSamples(timeMs, sr) == Sgn(timeMs) * MulDivNat(sr, Abs(timeMs), 1000)

\* CoefficientOf as SimpleCompressor (build_and_launch.sh) has it:
\* 1 - expf(-1 / samples) and no limits
CoefficientOfSimple(timeMs, sr) ==
    LET samples == Max(TimeInSamples(timeMs, sr), 1 * Milli)
    IN One - ExpNeg(DivPow10(1000000, samples, 3))

\* CoefficientOf as SimpleCompressor::updateCoefficients has it
\* (build_and_launch.sh, 594-606): 1 - expf(-1 / samples) with no lower bound
\* on the sample count and no limits; -1 / 0 is -Inf and expf(-Inf) is 0
CoefficientOfUnguarded(timeMs, sr) ==
    LET samples == TimeInSamples(timeMs, sr)
    IN IF samples = 0 THEN One
       ELSE IF samples > 0
            THEN One - ExpNeg(DivPow10(1000000, samples, 3))
            ELSE One - FDivNat(One, ExpNeg(DivPow10(1000000, -samples, 3)))

\* lines 251-264 for one of the two times
CoefficientOf(timeMs, sr) ==
    LET samples == Max(TimeInSamples(timeMs, sr), 1 * Milli)
        coeff == One - ExpNeg(DivPow10(2200000, samples, 3))
    IN jlimit(1000, 999000, coeff)

\* CoefficientOf, computed once for each time and rate the clients pass
\* (f @@ <<>> is f, tabulated by TLC)
CoefficientMemo ==
    [a \in (TimeArgs \X { r \in SampleRateArgs : r > 0 }) |->
        CoefficientOf(a[1], a[2])] @@ <<>>
Coefficient(timeMs, sr) ==
    IF <<timeMs, sr>> \in DOMAIN CoefficientMemo
    THEN CoefficientMemo[<<timeMs, sr>>]
    ELSE CoefficientOf(timeMs, sr)

\* the coefficient updateCoefficients leaves, old being the one it found
UpdatedCoeff(timeMs, sr, old) ==
    IF sr > 0 THEN Coefficient(timeMs, sr) ELSE old

updateCoefficients ==
    /\ attackCoeff' = UpdatedCoeff(attack', sampleRate', attackCoeff)
    /\ releaseCoeff' = UpdatedCoeff(release', sampleRate', releaseCoeff)

(***************************************************************************)
(* processSample (49-123) and softLimit (269-277), stage by stage          *)
(***************************************************************************)
\* 56-61: the input level in dB.  1e-10f is below the model's resolution:
\* amplitude 0 stands for the floored amplitude, whose level is -200 dB
InputLevelOf(input) ==
    LET level == IF input.kind = "fltmax" THEN 770 * Milli
                 ELSE IF input.v = 0 THEN -200 * Milli
                 ELSE LinToDb(Abs(input.v))
    IN jlimit(-120 * Milli, 20 * Milli, level)

\* InputLevelOf, computed once for each sample the clients feed
InputLevelMemo ==
    [x \in { y \in Samples : isfinite(y) } |-> InputLevelOf(x)] @@ <<>>
InputLevel(input) ==
    IF input \in DOMAIN InputLevelMemo THEN InputLevelMemo[input]
    ELSE InputLevelOf(input)

\* GainReduction with the subtraction of line 74 left out
GainReductionDivided(inputLevel, thr, rat) ==
    IF inputLevel > thr /\ inputLevel - thr > 0
    THEN Min(DivPow10(inputLevel - thr, Max(rat, 1 * Milli), 3), 60 * Milli)
    ELSE 0

\* GainReduction without the test of line 65
GainReductionNoKnee(inputLevel, thr, rat) ==
    LET overThreshold == inputLevel - thr
        safeRatio == Max(rat, 1 * Milli)
    IN Min(overThreshold
             - Sgn(overThreshold) * DivPow10(Abs(overThreshold), safeRatio, 3),
           60 * Milli)

\* GainReduction as calculateGainReduction (extreme_settings_analysis.cpp,
\* 12-19) has it: the ratio is not floored and the result is not capped
GainReductionUnprotected(inputLevel, thr, rat) ==
    IF inputLevel > thr
    THEN (inputLevel - thr) - DivPow10(inputLevel - thr, rat, 3)
    ELSE 0

\* GainReduction dividing by the stored ratio, without the floor of line 73
GainReductionUnfloored(inputLevel, thr, rat) ==
    IF inputLevel > thr
    THEN Min((inputLevel - thr) - DivPow10(inputLevel - thr, rat, 3),
             60 * Milli)
    ELSE 0

\* 64-79: the static gain reduction for a level
GainReduction(inputLevel, thr, rat) ==
    IF inputLevel > thr
    THEN LET overThreshold == inputLevel - thr
         IN IF overThreshold > 0
            THEN LET safeRatio == Max(rat, 1 * Milli)
                     reduction == overThreshold
                                    - DivPow10(overThreshold, safeRatio, 3)
                 IN Min(reduction, 60 * Milli)
            ELSE 0
    ELSE 0

\* EnvelopeFollower with the sign of the release step reversed
EnvelopeFollowerReleaseReversed(env, target, aCoeff, rCoeff) ==
    LET next == IF target > env
                THEN env + FMul(aCoeff, target - env)
                ELSE env - FMul(rCoeff, target - env)
    IN jlimit(0, 60 * Milli, next)

\* EnvelopeFollower adding the attack step without subtracting the envelope
EnvelopeFollowerAccumulating(env, target, aCoeff, rCoeff) ==
    LET next == IF target > env
                THEN env + FMul(aCoeff, target)
                ELSE env + FMul(rCoeff, target - env)
    IN jlimit(0, 60 * Milli, next)

\* 82-96: the envelope after one sample whose target reduction is target
EnvelopeFollower(env, target, aCoeff, rCoeff) ==
    LET next == IF target > env
                THEN env + FMul(aCoeff, target - env)
                ELSE env + FMul(rCoeff, target - env)
    IN jlimit(0, 60 * Milli, next)

\* the linear gain as the earlier inline processing has it
\* (AudioPluginDemo.h, 464): no limit on the gain in dB or on the multiplier
CompressedGainUnlimited(env, makeup) == DbToLin(-env + makeup)

\* 99-113: the linear gain; powf of a finite clamped argument is finite, so
\* the isfinite fallback of 109-110 is never taken
CompressedGain(env, makeup) ==
    LET gainInDb == jlimit(-60 * Milli, 20 * Milli, -env + makeup)
    IN jlimit(1000, 10 * One, DbToLin(gainInDb))

\* softLimit without its tanh branch
softLimitBypassed(x) == x

\* 269-277
softLimit(x) ==
    IF Abs(x) > 950000
    THEN FMul(Tanh(FMul(x, 500000)), 950000)
    ELSE x

\* 115-122: the returned sample.  FLT_MAX times a gain above 1 is +/-Inf;
\* FLT_MAX times a smaller gain stays far above the limiter threshold, where
\* tanh is +/-1
Output(input, gain) ==
    IF input.kind = "fltmax"
    THEN IF gain > One THEN 0 ELSE input.v * 950000
    ELSE softLimit(FMul(input.v, gain))

\* NextEnvelope without the three safety limits of lines 73, 77 and 96 (the
\* gain computer of extreme_settings_analysis.cpp, 12-19, and no bounds check)
NextEnvelopeUnlimited(input, thr, rat, aCoeff, rCoeff, env) ==
    LET level == InputLevel(input)
        target == IF level > thr
                  THEN (level - thr) - RDiv((level - thr) * Milli, rat)
                  ELSE 0
    IN IF target > env
       THEN env + FMul(aCoeff, target - env)
       ELSE env + FMul(rCoeff, target - env)

\* the envelope processSample leaves for a finite input
NextEnvelope(input, thr, rat, aCoeff, rCoeff, env) ==
    EnvelopeFollower(env, GainReduction(InputLevel(input), thr, rat),
                     aCoeff, rCoeff)

\* 52-96: the envelope processSample leaves when it found env
SampleEnvelopeWith(input, env, m) ==
    IF ~isfinite(input)
    THEN env
    ELSE NextEnvelope(input, m[1], m[2], m[3], m[4], env)

SampleEnvelope(input, env) == SampleEnvelopeWith(input, env, members)

\* 52-53, 99-122: the value processSample returns when it left the envelope at
\* next
SampleOutputWith(input, next, m) ==
    IF ~isfinite(input)
    THEN 0
    ELSE Output(input, CompressedGain(next, m[5]))

SampleOutput(input, next) == SampleOutputWith(input, next, members)

\* 64-82: the local targetGainReduction of a processSample call (never
\* computed for a non-finite input)
SampleTarget(input) ==
    IF ~isfinite(input)
    THEN 0
    ELSE GainReduction(InputLevel(input), threshold, ratio)

\* processSample without the isfinite test of lines 52-53: NaN compares false
\* with the threshold (target 0), +/-Inf has the clamped level of +20 dB, and
\* the non-finite product is caught by lines 118-119
processSampleUnguarded(input) ==
    /\ LET level == IF input.kind = "inf" THEN 20 * Milli
                    ELSE InputLevel(input)
       IN targetGainReduction' = IF input.kind = "nan" THEN 0
                    ELSE GainReduction(level, threshold, ratio)
    /\ envelope' = EnvelopeFollower(envelope, targetGainReduction', attackCoeff,
                                    releaseCoeff)
    /\ ret' = IF isfinite(input)
              THEN Output(input, CompressedGain(envelope', makeupGain))
              ELSE 0
    /\ lastCall' = "processSample"
    /\ lastInput' = input
    /\ nSamples' = nSamples + 1
    /\ lastNorm' = <<>>
    /\ UNCHANGED <<params, coeffs, sampleRate, prepared, buffer, bufferIn,
                   control, audio, state>>

\* processSample recomputing the coefficients on every sample
processSampleRecomputing(input) ==
    /\ UNCHANGED <<params, sampleRate, prepared, buffer, bufferIn, control,
                   audio, state>>
    /\ updateCoefficients
    /\ IF ~isfinite(input)
       THEN /\ ret' = 0
            /\ envelope' = envelope
            /\ targetGainReduction' = 0
       ELSE /\ targetGainReduction' = GainReduction(InputLevel(input), threshold, ratio)
            /\ envelope' = NextEnvelope(input, threshold, ratio, attackCoeff',
                                        releaseCoeff', envelope)
            /\ ret' = Output(input, CompressedGain(envelope', makeupGain))
    /\ lastCall' = "processSample"
    /\ lastInput' = input
    /\ nSamples' = nSamples + 1
    /\ lastNorm' = <<>>

\* 49-123; nSamples counts the call
processSample(input) ==
    /\ envelope' = SampleEnvelope(input, envelope)
    /\ ret' = SampleOutput(input, envelope')
    /\ targetGainReduction' = SampleTarget(input)
    /\ lastCall' = "processSample"
    /\ lastInput' = input
    /\ nSamples' = nSamples + 1
    /\ lastNorm' = <<>>
    /\ UNCHANGED <<params, coeffs, sampleRate, prepared, buffer, bufferIn,
                   control, audio, state>>

(***************************************************************************)
(* processBuffer (126-141).  A buffer is a sequence of channels, each a    *)
(* sequence of numSamples samples; the processed samples are finite.       *)
(***************************************************************************)
\* 129-130
NumChannels(b) == Len(b)
NumSamples(b) == IF Len(b) = 0 THEN 0 ELSE Len(b[1])

\* 136-139: the inner loop over the samples of one channel, entered with
\* the envelope env: the samples written and the envelope left
RECURSIVE ProcessChannelWith(_, _, _)
ProcessChannelWith(channelData, env, m) ==
    IF channelData = <<>>
    THEN [data |-> <<>>, envelope |-> env]
    ELSE LET next == SampleEnvelopeWith(Head(channelData), env, m)
             rest == ProcessChannelWith(Tail(channelData), next, m)
         IN [data |-> <<Fin(SampleOutputWith(Head(channelData), next, m))>>
                        \o rest.data,
             envelope |-> rest.envelope]

ProcessChannel(channelData, env) == ProcessChannelWith(channelData, env, members)

\* every channel processed from the envelope found at the start of the
\* call; the envelope left is the last channel's
RECURSIVE ProcessChannelsApart(_, _)
ProcessChannelsApart(b, env) ==
    IF b = <<>>
    THEN [data |-> <<>>, envelope |-> env]
    ELSE LET first == ProcessChannel(Head(b), env)
             rest == ProcessChannelsApart(Tail(b), env)
         IN [data |-> <<first.data>> \o rest.data,
             envelope |-> IF Tail(b) = <<>> THEN first.envelope
                          ELSE rest.envelope]

\* 132-140: the outer loop over the channels; each channel is entered with
\* the envelope the one before left
RECURSIVE ProcessChannelsWith(_, _, _)
ProcessChannelsWith(b, env, m) ==
    IF b = <<>>
    THEN [data |-> <<>>, envelope |-> env]
    ELSE LET first == ProcessChannelWith(Head(b), env, m)
             rest == ProcessChannelsWith(Tail(b), first.envelope, m)
         IN [data |-> <<first.data>> \o rest.data,
             envelope |-> rest.envelope]

ProcessChannels(b, env) == ProcessChannelsWith(b, env, members)

\* 126-141; nSamples counts the processSample calls
processBuffer(b) ==
    /\ LET result == ProcessChannels(b, envelope)
       IN /\ buffer' = result.data
          /\ envelope' = result.envelope
    /\ bufferIn' = b
    /\ nSamples' = nSamples + NumChannels(b) * NumSamples(b)
    /\ lastCall' = "processBuffer"
    /\ lastInput' = NoInput
    /\ ret' = 0
    /\ targetGainReduction' = 0
    /\ lastNorm' = <<>>
    /\ UNCHANGED <<params, coeffs, sampleRate, prepared, control, audio, state>>

(***************************************************************************)
(* The other methods                                                       *)
(***************************************************************************)
\* prepareToPlay without the updateCoefficients call of line 38
prepareToPlayStale(newSampleRate) ==
    /\ sampleRate' = newSampleRate
    /\ UNCHANGED <<params, coeffs>>
    /\ envelope' = 0
    /\ prepared' = TRUE
    /\ Called("prepareToPlay")

\* 35-40
prepareToPlay(newSampleRate) ==
    /\ sampleRate' = newSampleRate
    /\ UNCHANGED params
    /\ updateCoefficients
    /\ envelope' = 0
    /\ prepared' = TRUE
    /\ Called("prepareToPlay")

\* reset clearing the coefficients with the envelope
resetEverything ==
    /\ envelope' = 0
    /\ attackCoeff' = 0
    /\ releaseCoeff' = 0
    /\ UNCHANGED <<params, sampleRate, prepared>>
    /\ Called("reset")

\* 43-46
reset ==
    /\ envelope' = 0
    /\ UNCHANGED <<params, coeffs, sampleRate, prepared>>
    /\ Called("reset")

\* 145-155
setParameters(newThreshold, newRatio, newAttack, newRelease, newMakeupGain) ==
    /\ threshold' = newThreshold
    /\ ratio' = newRatio
    /\ attack' = newAttack
    /\ release' = newRelease
    /\ makeupGain' = newMakeupGain
    /\ UNCHANGED <<sampleRate, envelope, prepared>>
    /\ updateCoefficients
    /\ Called("setParameters")

\* 158-162
setThreshold(newThreshold) ==
    /\ threshold' = newThreshold
    /\ UNCHANGED <<ratio, attack, release, makeupGain, sampleRate, envelope,
                   prepared>>
    /\ updateCoefficients
    /\ Called("setThreshold")

\* 165-169
setRatio(newRatio) ==
    /\ ratio' = newRatio
    /\ UNCHANGED <<threshold, attack, release, makeupGain, sampleRate,
                   envelope, prepared>>
    /\ updateCoefficients
    /\ Called("setRatio")

\* 174
ratioPresets == <<1 * Milli, 2 * Milli, 3 * Milli, 4 * Milli, 6 * Milli,
                  8 * Milli, 10 * Milli, 20 * Milli>>

\* 172-179
setRatioPreset(presetIndex) ==
    /\ IF presetIndex >= 0 /\ presetIndex < 8
       THEN /\ ratio' = ratioPresets[presetIndex + 1]
            /\ UNCHANGED <<threshold, attack, release, makeupGain,
                           sampleRate>>
            /\ updateCoefficients
       ELSE UNCHANGED <<params, coeffs, sampleRate>>
    /\ UNCHANGED <<envelope, prepared>>
    /\ Called("setRatioPreset")

\* setAttack without the updateCoefficients call of line 207
setAttackStale(newAttack) ==
    /\ attack' = newAttack
    /\ UNCHANGED <<threshold, ratio, release, makeupGain, coeffs, sampleRate,
                   envelope, prepared>>
    /\ Called("setAttack")

\* 204-208
setAttack(newAttack) ==
    /\ attack' = newAttack
    /\ UNCHANGED <<threshold, ratio, release, makeupGain, sampleRate,
                   envelope, prepared>>
    /\ updateCoefficients
    /\ Called("setAttack")

\* 211-215
setRelease(newRelease) ==
    /\ release' = newRelease
    /\ UNCHANGED <<threshold, ratio, attack, makeupGain, sampleRate,
                   envelope, prepared>>
    /\ updateCoefficients
    /\ Called("setRelease")

\* 218-221
setMakeupGain(newMakeupGain) ==
    /\ makeupGain' = newMakeupGain
    /\ UNCHANGED <<threshold, ratio, attack, release, coeffs, sampleRate,
                   envelope, prepared>>
    /\ Called("setMakeupGain")

\* the five parameters updateFromNormalizedParameters (284-288) stores for the
\* normalized values n
NormalizedParameters(n) ==
    << Denormalized(n[1], -60 * Milli, 60 * Milli),
       Denormalized(n[2], 1 * Milli, 19 * Milli),
       Denormalized(n[3], 100, 399900),
       Denormalized(n[4], 1 * Milli, 399 * Milli),
       Denormalized(n[5], -30 * Milli, 60 * Milli) >>

\* updateFromNormalizedParameters without the updateCoefficients call of
\* line 290
updateFromNormalizedParametersStale(thresholdNorm, ratioNorm, attackNorm, releaseNorm, makeupNorm) ==
    /\ threshold' = Denormalized(thresholdNorm, -60 * Milli, 60 * Milli)
    /\ ratio' = Denormalized(ratioNorm, 1 * Milli, 19 * Milli)
    /\ attack' = Denormalized(attackNorm, 100, 399900)
    /\ release' = Denormalized(releaseNorm, 1 * Milli, 399 * Milli)
    /\ makeupGain' = Denormalized(makeupNorm, -30 * Milli, 60 * Milli)
    /\ UNCHANGED <<sampleRate, envelope, prepared, nSamples, buffer, bufferIn,
                   control, audio, state>>
    /\ UNCHANGED coeffs
    /\ lastCall' = "updateFromNormalizedParameters"
    /\ lastNorm' = <<thresholdNorm, ratioNorm, attackNorm, releaseNorm,
                     makeupNorm>>
    /\ lastInput' = NoInput
    /\ ret' = 0
    /\ targetGainReduction' = 0

\* 280-291: the normalized values are in units of 1/Milli (0.5 is 500)
updateFromNormalizedParameters(thresholdNorm, ratioNorm, attackNorm, releaseNorm, makeupNorm) ==
    /\ threshold' = Denormalized(thresholdNorm, -60 * Milli, 60 * Milli)
    /\ ratio' = Denormalized(ratioNorm, 1 * Milli, 19 * Milli)
    /\ attack' = Denormalized(attackNorm, 100, 399900)
    /\ release' = Denormalized(releaseNorm, 1 * Milli, 399 * Milli)
    /\ makeupGain' = Denormalized(makeupNorm, -30 * Milli, 60 * Milli)
    /\ UNCHANGED <<sampleRate, envelope, prepared, nSamples, buffer, bufferIn,
                   control, audio, state>>
    /\ updateCoefficients
    /\ lastCall' = "updateFromNormalizedParameters"
    /\ lastNorm' = <<thresholdNorm, ratioNorm, attackNorm, releaseNorm,
                     makeupNorm>>
    /\ lastInput' = NoInput
    /\ ret' = 0
    /\ targetGainReduction' = 0

\* 182-191: the first preset within 0.1 of the ratio rat, 3 when there is none
RatioPresetIndexFrom(rat, i) ==
    IF \E j \in i..7 : Abs(rat - ratioPresets[j + 1]) < 100
    THEN CHOOSE j \in i..7 :
             /\ Abs(rat - ratioPresets[j + 1]) < 100
             /\ \A k \in i..(j - 1) : ~(Abs(rat - ratioPresets[k + 1]) < 100)
    ELSE 3

\* getRatioPresetIndex returning the first preset when none matches
RatioPresetIndexDefaultFirst(rat) ==
    IF \E j \in 0..7 : Abs(rat - ratioPresets[j + 1]) < 100
    THEN RatioPresetIndexFrom(rat, 0)
    ELSE 0

\* 182-191: the value getRatioPresetIndex returns for the ratio rat
RatioPresetIndex(rat) == RatioPresetIndexFrom(rat, 0)

\* 182-191: a const method; ret is the index returned
getRatioPresetIndex ==
    /\ UNCHANGED <<params, coeffs, sampleRate, envelope, prepared>>
    /\ lastCall' = "getRatioPresetIndex"
    /\ lastInput' = NoInput
    /\ ret' = RatioPresetIndex(ratio)
    /\ nSamples' = nSamples
    /\ targetGainReduction' = 0
    /\ lastNorm' = <<>>
    /\ UNCHANGED <<buffer, bufferIn, control, audio, state>>

(***************************************************************************)
(* The plugin's host parameters (part_000, 74-79).  Each is a float over a *)
(* linear NormalisableRange; the host, the editor and                      *)
(* updateCompressorParameters exchange its normalized value, in 1/Milli.   *)
(***************************************************************************)
\* 75-79: the declared ranges <<start, end>> and defaults, in the order
\* threshold, ratio, attack, release, makeup
ParameterRanges ==
    << <<-60 * Milli, 0>>, <<1 * Milli, 20 * Milli>>, <<500, 100 * Milli>>,
       <<5 * Milli, 1000 * Milli>>, <<0, 18 * Milli>> >>
ParameterDefaultValues ==
    <<-20 * Milli, 4 * Milli, 10 * Milli, 100 * Milli, 0>>

\* NormalisableRange<float> (start, end): the normalized value of v
convertTo0to1(v, range) ==
    RDiv((v - range[1]) * Milli, range[2] - range[1])

\* 75-79: the normalized values of the defaults
ParameterDefaults ==
    [i \in 1..5 |-> convertTo0to1(ParameterDefaultValues[i],
                                  ParameterRanges[i])]

\* 18-29 with the member initialisers of 296-308: a Compressor constructed
\* with the parameters c
Compressor(c) ==
    /\ threshold = c[1]
    /\ ratio = c[2]
    /\ attack = c[3]
    /\ release = c[4]
    /\ makeupGain = c[5]
    /\ attackCoeff = 0
    /\ releaseCoeff = 0
    /\ envelope = 0
    /\ sampleRate = 44100
    /\ lastCall = "Compressor"
    /\ lastInput = NoInput
    /\ ret = 0
    /\ prepared = FALSE
    /\ nSamples = 0
    /\ targetGainReduction = 0
    /\ lastNorm = <<>>
    /\ buffer = <<>>
    /\ bufferIn = <<>>
    /\ control = ControlIdle
    /\ audio = AudioIdle
    /\ state = ParameterDefaults

Init == \E c \in CtorArgs : Compressor(c)

Next ==
    \/ \E sr \in SampleRateArgs : prepareToPlay(sr)
    \/ reset
    \/ nSamples < MaxSamples /\ \E x \in Samples : processSample(x)
    \/ \E p \in SetParametersArgs : setParameters(p[1], p[2], p[3], p[4], p[5])
    \/ \E t \in ThresholdArgs : setThreshold(t)
    \/ \E r \in RatioArgs : setRatio(r)
    \/ \E i \in PresetArgs : setRatioPreset(i)
    \/ \E a \in AttackArgs : setAttack(a)
    \/ \E r \in ReleaseArgs : setRelease(r)
    \/ \E m \in MakeupGainArgs : setMakeupGain(m)
    \/ \E n \in NormalizedArgs :
          updateFromNormalizedParameters(n[1], n[2], n[3], n[4], n[5])

Spec == Init /\ [][Next]_vars

(***************************************************************************)
(* The gain computer of processSample (64-79) on its own: Compressors      *)
(* constructed over a grid of thresholds and ratios, fed samples whose     *)
(* levels lie below, at and above the thresholds.                          *)
(***************************************************************************)
GainThresholds == { -60 * Milli, -26021, -20 * Milli, 0 }
GainRatios == { 500, 1 * Milli, 1500, 4 * Milli, 20 * Milli }
GainSamples == { Fin(0), Fin(50000), Fin(100000), Fin(100100), Fin(500000),
                 Fin(One), Fin(2 * One), FltMax(1) }

GainInit ==
    \E t \in GainThresholds, r \in GainRatios :
        Compressor(<<t, r, 10 * Milli, 100 * Milli, 0>>)

GainNext == nSamples < MaxSamples /\ \E x \in GainSamples : processSample(x)

GainSpec == GainInit /\ [][GainNext]_vars

(***************************************************************************)
(* A tone: a Compressor is constructed, prepared at 44100 Hz and fed       *)
(* RunLength samples of one amplitude whose level is above the threshold.  *)
(***************************************************************************)
RunLength == 1000

RunCtorArgs == { <<-20 * Milli, 4 * Milli, 10 * Milli, 100 * Milli, 0>>,
                 <<-30 * Milli, 4 * Milli, 0, 100 * Milli, 0>>,
                 <<-60 * Milli, 20 * Milli, 100, 1 * Milli, 6 * Milli>>,
                 <<-30 * Milli, 500, 0, -5 * Milli, 6 * Milli>> }
RunSamples == { Fin(One), Fin(-One), Fin(50000), FltMax(1) }

SameAmplitude(x, y) == x.kind = y.kind /\ Abs(x.v) = Abs(y.v)

RunInit == \E c \in RunCtorArgs : Compressor(c)

RunNext ==
    \/ ~prepared /\ prepareToPlay(44100)
    \/ /\ prepared
       /\ nSamples < RunLength
       /\ \E x \in RunSamples :
            /\ nSamples = 0 \/ SameAmplitude(x, lastInput)
            /\ InputLevel(x) > threshold
            /\ processSample(x)

RunSpec == RunInit /\ [][RunNext]_vars

(***************************************************************************)
(* A step down: a Compressor is constructed, prepared at 44100 Hz, fed up  *)
(* to MaxSamples loud samples and then silence, ReleaseLength samples in   *)
(* all.  The client keeps feeding samples (weak fairness).                 *)
(***************************************************************************)
ReleaseLength == 250

ReleaseCtorArgs == { <<-20 * Milli, 4 * Milli, 10 * Milli, 100 * Milli, 0>>,
                     <<-30 * Milli, 4 * Milli, 0, -5 * Milli, 0>>,
                     <<-60 * Milli, 20 * Milli, 100, 1 * Milli, 6 * Milli>> }
LoudSamples == { Fin(One), FltMax(1) }
Silence == Fin(0)

InSilence == lastCall = "processSample" /\ lastInput = Silence

ReleaseInit == \E c \in ReleaseCtorArgs : Compressor(c)

ReleaseNext ==
    \/ ~prepared /\ prepareToPlay(44100)
    \/ /\ prepared
       /\ ~InSilence
       /\ nSamples < MaxSamples
       /\ \E x \in LoudSamples : processSample(x)
    \/ /\ prepared
       /\ nSamples < ReleaseLength
       /\ processSample(Silence)

ReleaseSpec == ReleaseInit /\ [][ReleaseNext]_vars /\ WF_vars(ReleaseNext)

(***************************************************************************)
(* updateFromNormalizedParameters (280-291) on its own: Compressors used   *)
(* in every order of prepareToPlay, full-scale samples and normalized      *)
(* updates over a grid of values between 0 and 1.                          *)
(***************************************************************************)
NormInit == \E c \in CtorArgs : Compressor(c)

NormNext ==
    \/ \E sr \in SampleRateArgs : prepareToPlay(sr)
    \/ nSamples < MaxSamples /\ processSample(Fin(One))
    \/ \E n \in NormTuples :
          updateFromNormalizedParameters(n[1], n[2], n[3], n[4], n[5])

NormSpec == NormInit /\ [][NormNext]_vars

(***************************************************************************)
(* processBuffer on its own: prepared Compressors given mono and stereo    *)
(* buffers (the layouts the plugin accepts, part_000 86-100) of silent and  *)
(* audible samples.                                                        *)
(***************************************************************************)
MaxChannels == 2
MaxBufferLen == 2
BufferSamples == { Fin(0), Fin(500000) }
Buffers ==
    UNION { [1..c -> [1..n -> BufferSamples]] :
              c \in 1..MaxChannels, n \in 0..MaxBufferLen }

BufferInit == \E c \in CtorArgs : Compressor(c)

BufferNext ==
    \/ ~prepared /\ prepareToPlay(44100)
    \/ prepared /\ nSamples < MaxSamples /\ \E b \in Buffers : processBuffer(b)

BufferSpec == BufferInit /\ [][BufferNext]_vars

(***************************************************************************)
(* Two threads.  The control thread runs parameter setters while the audio *)
(* thread runs processSample on the same Compressor, with no lock          *)
(* (part_000 188-215 and the editor's callbacks).  A step is one read or   *)
(* one write of a member (a float is read and written whole); steps that   *)
(* touch only locals, or only members the other thread never writes, are   *)
(* joined to the next one.  pc is the source line the thread is at.        *)
(***************************************************************************)
RaceSamples == { Fin(One), FltMax(1), NaN }

\* the member writes of a setter, in source order, and whether it goes on to
\* updateCoefficients
setParametersWrites(p) ==
    << <<"threshold", p[1]>>, <<"ratio", p[2]>>, <<"attack", p[3]>>,
       <<"release", p[4]>>, <<"makeupGain", p[5]>> >>
ControlCalls ==
    { [writes |-> setParametersWrites(p), update |-> TRUE] :
         p \in SetParametersArgs }
      \cup { [writes |-> << <<"threshold", t>> >>, update |-> TRUE] :
                 t \in ThresholdArgs }
      \cup { [writes |-> << <<"makeupGain", m>> >>, update |-> FALSE] :
                 m \in MakeupGainArgs }

\* the exponent -2.2f / samples stored where line 259 stores the coefficient
CoefficientUnclampedStaged(samples) == -DivPow10(2200000, samples, 3)

\* 259, 260: the coefficient as first stored, before the limits of 263-264
CoefficientUnclamped(samples) ==
    One - ExpNeg(DivPow10(2200000, samples, 3))

\* 84-93: the envelope as first stored, before the bounds check of line 96
EnvelopeUnclamped(env, target, aCoeff, rCoeff) ==
    IF target > env
    THEN env + FMul(aCoeff, target - env)
    ELSE env + FMul(rCoeff, target - env)

ControlSteps == UNCHANGED <<envelope, sampleRate, hist, buffer, audio, state>>

\* a setter is entered
ControlCall(call) ==
    /\ control.pc = "idle"
    /\ control' = [ControlIdle EXCEPT !.pc = "write", !.writes = call.writes,
                                      !.update = call.update]
    /\ UNCHANGED <<params, coeffs>>
    /\ ControlSteps

\* 148-152, 160, 220: the next member write of the setter
ControlWrite ==
    /\ control.pc = "write"
    /\ LET w == Head(control.writes)
           rest == Tail(control.writes)
       IN /\ threshold' = IF w[1] = "threshold" THEN w[2] ELSE threshold
          /\ ratio' = IF w[1] = "ratio" THEN w[2] ELSE ratio
          /\ attack' = IF w[1] = "attack" THEN w[2] ELSE attack
          /\ release' = IF w[1] = "release" THEN w[2] ELSE release
          /\ makeupGain' = IF w[1] = "makeupGain" THEN w[2] ELSE makeupGain
          /\ control' = IF rest # <<>> THEN [control EXCEPT !.writes = rest]
                        ELSE IF control.update
                             THEN [control EXCEPT !.pc = "247", !.writes = rest]
                             ELSE ControlIdle
    /\ UNCHANGED coeffs
    /\ ControlSteps

\* 247-256: the guard and the two local sample counts
ControlSamples ==
    /\ control.pc = "247"
    /\ control' = IF sampleRate > 0
                  THEN [control EXCEPT
                          !.pc = "259",
                          !.attackSamples =
                              Max(TimeInSamples(attack, sampleRate), 1 * Milli),
                          !.releaseSamples =
                              Max(TimeInSamples(release, sampleRate), 1 * Milli)]
                  ELSE ControlIdle
    /\ UNCHANGED <<params, coeffs>>
    /\ ControlSteps

\* 259
ControlAttackCoeff ==
    /\ control.pc = "259"
    /\ attackCoeff' = CoefficientUnclamped(control.attackSamples)
    /\ control' = [control EXCEPT !.pc = "260"]
    /\ UNCHANGED <<params, releaseCoeff>>
    /\ ControlSteps

\* 260
ControlReleaseCoeff ==
    /\ control.pc = "260"
    /\ releaseCoeff' = CoefficientUnclamped(control.releaseSamples)
    /\ control' = [control EXCEPT !.pc = "263"]
    /\ UNCHANGED <<params, attackCoeff>>
    /\ ControlSteps

\* 263
ControlAttackLimit ==
    /\ control.pc = "263"
    /\ attackCoeff' = jlimit(1000, 999000, attackCoeff)
    /\ control' = [control EXCEPT !.pc = "264"]
    /\ UNCHANGED <<params, releaseCoeff>>
    /\ ControlSteps

\* 264, and the return
ControlReleaseLimit ==
    /\ control.pc = "264"
    /\ releaseCoeff' = jlimit(1000, 999000, releaseCoeff)
    /\ control' = ControlIdle
    /\ UNCHANGED <<params, attackCoeff>>
    /\ ControlSteps

AudioSteps ==
    UNCHANGED <<params, coeffs, sampleRate, prepared, lastNorm, buffer,
                bufferIn, control, state>>

\* what a returning processSample leaves in the history variables
AudioReturns(value) ==
    /\ ret' = value
    /\ lastCall' = "processSample"
    /\ lastInput' = audio.input
    /\ nSamples' = nSamples + 1
    /\ targetGainReduction' = audio.gainReduction
    /\ audio' = [AudioIdle EXCEPT !.coeffReadAt = audio.coeffReadAt]

AudioRuns == UNCHANGED <<lastCall, lastInput, ret, nSamples, targetGainReduction>>

\* 49-53: processSample is entered; a non-finite input returns at once
AudioEnter(input) ==
    /\ audio.pc = "idle"
    /\ audio' = [AudioIdle EXCEPT !.pc = IF isfinite(input) THEN "65" ELSE "53",
                                  !.input = input]
    /\ UNCHANGED envelope
    /\ AudioRuns
    /\ AudioSteps

\* 53
AudioRejects ==
    /\ audio.pc = "53"
    /\ AudioReturns(0)
    /\ UNCHANGED envelope
    /\ AudioSteps

\* 56-65: the level, and the first read of threshold
AudioCompares ==
    /\ audio.pc = "65"
    /\ audio' = [audio EXCEPT
                   !.pc = IF InputLevel(audio.input) > threshold
                          THEN "67" ELSE "84"]
    /\ UNCHANGED envelope
    /\ AudioRuns
    /\ AudioSteps

\* 67-71: the second read of threshold
AudioOverThreshold ==
    /\ audio.pc = "67"
    /\ LET overThreshold == InputLevel(audio.input) - threshold
       IN audio' = IF overThreshold > 0
                   THEN [audio EXCEPT !.pc = "73",
                                      !.overThreshold = overThreshold]
                   ELSE [audio EXCEPT !.pc = "84"]
    /\ UNCHANGED envelope
    /\ AudioRuns
    /\ AudioSteps

\* 73-77: the read of ratio
AudioGainReduction ==
    /\ audio.pc = "73"
    /\ audio' = [audio EXCEPT
                   !.pc = "84",
                   !.gainReduction =
                       GainReduction(audio.overThreshold, 0, ratio)]
    /\ UNCHANGED envelope
    /\ AudioRuns
    /\ AudioSteps

\* 82-93: the read of one coefficient and the first write of the envelope
AudioEnvelope ==
    /\ audio.pc = "84"
    /\ envelope' = EnvelopeUnclamped(envelope, audio.gainReduction,
                                     attackCoeff, releaseCoeff)
    /\ audio' = [audio EXCEPT !.pc = "96", !.coeffReadAt = control.pc]
    /\ AudioRuns
    /\ AudioSteps

\* 96
AudioEnvelopeLimit ==
    /\ audio.pc = "96"
    /\ envelope' = jlimit(0, 60 * Milli, envelope)
    /\ audio' = [audio EXCEPT !.pc = "99"]
    /\ AudioRuns
    /\ AudioSteps

\* 99-122: the read of makeupGain and the return
AudioOutput ==
    /\ audio.pc = "99"
    /\ AudioReturns(Output(audio.input, CompressedGain(envelope, makeupGain)))
    /\ UNCHANGED envelope
    /\ AudioSteps

RaceInit == \E c \in CtorArgs : Compressor(c)

RaceNext ==
    \/ ~prepared /\ prepareToPlay(44100)
    \/ prepared /\ \E call \in ControlCalls : ControlCall(call)
    \/ ControlWrite
    \/ ControlSamples
    \/ ControlAttackCoeff
    \/ ControlReleaseCoeff
    \/ ControlAttackLimit
    \/ ControlReleaseLimit
    \/ prepared /\ nSamples < MaxSamples
          /\ \E x \in RaceSamples : AudioEnter(x)
    \/ AudioRejects
    \/ AudioCompares
    \/ AudioOverThreshold
    \/ AudioGainReduction
    \/ AudioEnvelope
    \/ AudioEnvelopeLimit
    \/ AudioOutput

RaceSpec == RaceInit /\ [][RaceNext]_vars

(***************************************************************************)
(* The gain stage of processSample (98-115) on its own: Compressors        *)
(* constructed with makeup gains from -60 to +40 dB, prepared and fed      *)
(* samples that raise the envelope.                                        *)
(***************************************************************************)
MakeupGains == { -60 * Milli, -30 * Milli, 0, 20 * Milli, 30 * Milli,
                 40 * Milli }
MakeupSamples == { Fin(50000), Fin(One), FltMax(1) }

MakeupInit ==
    \E m \in MakeupGains :
       \/ Compressor(<<-20 * Milli, 4 * Milli, 10 * Milli, 100 * Milli, m>>)
       \/ Compressor(<<-60 * Milli, 20 * Milli, 0, 100 * Milli, m>>)

MakeupNext ==
    \/ ~prepared /\ prepareToPlay(44100)
    \/ prepared /\ nSamples < MaxSamples
          /\ \E x \in MakeupSamples : processSample(x)

MakeupSpec == MakeupInit /\ [][MakeupNext]_vars

(***************************************************************************)
(* The soft limiter on its own: a constructed Compressor on which no       *)
(* setter and no prepareToPlay has run has attackCoeff = releaseCoeff = 0   *)
(* (296-308), so its envelope stays 0 and, with the default makeup of 0 dB, *)
(* compressedGain is 1: processSample returns softLimit(input).            *)
(***************************************************************************)
\* amplitudes from -1.2 to 1.2 in steps of 0.02, the limiter threshold of
\* 0.95 among them
LimiterInputs == { Fin(20000 * k - 1190000) : k \in 0..119 }

LimiterInit == Compressor(<<-20 * Milli, 4 * Milli, 10 * Milli, 100 * Milli, 0>>)

LimiterNext == nSamples < MaxSamples /\ \E x \in LimiterInputs : processSample(x)

LimiterSpec == LimiterInit /\ [][LimiterNext]_vars

(***************************************************************************)
(* The ratio presets: setRatioPreset and setRatio with in-range and        *)
(* out-of-range arguments, and getRatioPresetIndex.                        *)
(***************************************************************************)
PresetIndices == -1 .. 8
\* ratios near a preset, between presets and outside 1..20
PresetRatios == { 500, 1950, 2050, 2500, 4050, 5 * Milli, 19950, 25 * Milli }

PresetInit == \E c \in CtorArgs : Compressor(c)

PresetNext ==
    \/ ~prepared /\ prepareToPlay(44100)
    \/ \E i \in PresetIndices : setRatioPreset(i)
    \/ \E r \in PresetRatios : setRatio(r)
    \/ getRatioPresetIndex

PresetSpec == PresetInit /\ [][PresetNext]_vars

(***************************************************************************)
(* The plugin (part_000): one Compressor, the host parameters, the         *)
(* editor's ratio combo box (part_003, 452-483) and the audio callback.    *)
(***************************************************************************)
\* part_003 455-462: the ids of the combo box items
ComboIds == 1 .. 8

\* part_003 471-481: the normalized value onChange writes for selectedId
ComboNormalized(selectedId) == RDiv((selectedId - 1) * Milli, 7)

\* part_003 471-481: ratioComboBox.onChange
ratioComboBoxOnChange(selectedId) ==
    /\ selectedId > 0
    /\ state' = [state EXCEPT ![2] = ComboNormalized(selectedId)]
    /\ UNCHANGED <<params, coeffs, sampleRate, envelope, prepared, nSamples,
                   buffer, bufferIn, control, audio>>
    /\ lastCall' = "ratioComboBox.onChange"
    /\ lastInput' = Fin(selectedId)
    /\ ret' = 0
    /\ targetGainReduction' = 0
    /\ lastNorm' = <<>>

\* part_000 188-202: updateCompressorParameters (204-215), which passes the
\* normalized values on to updateFromNormalizedParameters, then processBuffer
\* with the parameters and coefficients just stored
process(b) ==
    /\ threshold' = NormalizedParameters(state)[1]
    /\ ratio' = NormalizedParameters(state)[2]
    /\ attack' = NormalizedParameters(state)[3]
    /\ release' = NormalizedParameters(state)[4]
    /\ makeupGain' = NormalizedParameters(state)[5]
    /\ UNCHANGED <<sampleRate, prepared, control, audio, state>>
    /\ updateCoefficients
    /\ \E env \in {envelope}, m \in {members'} :
          LET result == ProcessChannelsWith(b, env, m)
          IN /\ buffer' = result.data
             /\ envelope' = result.envelope
    /\ bufferIn' = b
    /\ nSamples' = nSamples + NumChannels(b) * NumSamples(b)
    /\ lastCall' = "process"
    /\ lastInput' = NoInput
    /\ ret' = 0
    /\ targetGainReduction' = 0
    /\ lastNorm' = state

\* part_000 218: the plugin's Compressor; 75-79: the parameters at their
\* defaults
PluginInit == Compressor(<<-20 * Milli, 4 * Milli, 10 * Milli, 100 * Milli, 0>>)

PluginNext ==
    \/ ~prepared /\ prepareToPlay(44100)
    \/ \E id \in ComboIds : ratioComboBoxOnChange(id)
    \/ prepared /\ nSamples < MaxSamples /\ \E b \in Buffers : process(b)

PluginSpec == PluginInit /\ [][PluginNext]_vars

-----------------------------------------------------------------------------
(* Properties of the Compressor.                                            *)

\* the coefficients updateCoefficients derives from the stored fields
Fresh ==
    /\ attackCoeff = CoefficientOf(attack, sampleRate)
    /\ releaseCoeff = CoefficientOf(release, sampleRate)

\* C1: after any sequence of calls the envelope (the gain reduction in dB,
\* units of 1/Milli) lies between 0 and 60 dB inclusive.
EnvelopeWithinLimits == 0 <= envelope /\ envelope <= 60 * Milli

\* a sample has driven the envelope up and a later one let it fall back
EnvelopeMoved ==
    /\ lastCall = "processSample"
    /\ nSamples = 2
    /\ envelope > 0
    /\ GainReduction(InputLevel(lastInput), threshold, ratio) < envelope

\* C2: every value processSample returns is finite (an integer here) and no
\* larger in magnitude than 1; the soft limiter keeps it at or below 0.95.
OutputWithinLimits ==
    lastCall = "processSample" => Abs(ret) <= 950000 /\ Abs(ret) <= One

\* a full-scale sample boosted by the makeup gain came out soft-limited
OutputLimited ==
    /\ lastCall = "processSample"
    /\ lastInput = Fin(One)
    /\ makeupGain = 6 * Milli
    /\ envelope = 0
    /\ ret > 0
    /\ ret < 950000

\* C3: a processSample call with a NaN or infinite input returns 0 and
\* leaves the envelope and every other field as they were.
NonFiniteInputIgnored ==
    [][(lastCall' = "processSample" /\ ~isfinite(lastInput'))
         => /\ ret' = 0
            /\ UNCHANGED <<params, coeffs, envelope, sampleRate>>]_vars

\* a non-finite sample arrived while the envelope was raised
NonFiniteInputSeen ==
    /\ lastCall = "processSample"
    /\ ~isfinite(lastInput)
    /\ envelope > 0
    /\ attackCoeff > 0
    /\ ret = 0

\* C4 (as written): after prepareToPlay the envelope is 0 and both
\* coefficients are the ones derived from attack, release and the sample
\* rate just passed, whatever the state before.
PrepareDerivesCoefficients ==
    lastCall = "prepareToPlay" => envelope = 0 /\ Fresh

\* C4 (amended): after prepareToPlay the envelope is 0; with a positive
\* sample rate both coefficients are the derived ones, with a sample rate of
\* zero or less both coefficients are left as they were.
PrepareDerivesCoefficientsIfPositive ==
    [][lastCall' = "prepareToPlay"
         => /\ envelope' = 0
            /\ IF sampleRate' > 0
               THEN /\ attackCoeff' = CoefficientOf(attack', sampleRate')
                    /\ releaseCoeff' = CoefficientOf(release', sampleRate')
               ELSE UNCHANGED coeffs]_vars

\* prepareToPlay with a positive rate after the times were changed and
\* samples were processed
PreparedAfterUse ==
    /\ lastCall = "prepareToPlay"
    /\ sampleRate > 0
    /\ nSamples > 0
    /\ attack = 0
    /\ attackCoeff = 889197

\* C5: reset sets the envelope to 0 and changes nothing else.
ResetClearsEnvelopeOnly ==
    [][lastCall' = "reset"
         => envelope' = 0 /\ UNCHANGED <<params, coeffs, sampleRate>>]_vars

\* reset of a prepared compressor with changed parameters, after samples
ResetAfterUse ==
    /\ lastCall = "reset"
    /\ envelope = 0
    /\ nSamples > 0
    /\ attackCoeff > 0
    /\ ratio = 500

\* C6: processSample changes no field other than the envelope, and the new
\* envelope and the value returned are the functions NextEnvelope and Output
\* of the fields and the input alone.
ProcessSampleChangesEnvelopeOnly ==
    [][lastCall' = "processSample"
         => /\ UNCHANGED <<params, coeffs, sampleRate>>
            /\ isfinite(lastInput')
                 => /\ envelope' = NextEnvelope(lastInput', threshold, ratio,
                                      attackCoeff, releaseCoeff, envelope)
                    /\ ret' = Output(lastInput',
                                     CompressedGain(envelope', makeupGain))]_vars

\* a finite sample moved the envelope before any coefficients were stale
EnvelopeChangedBySample ==
    /\ lastCall = "processSample"
    /\ nSamples = 1
    /\ lastInput = Fin(One)
    /\ envelope > 0
    /\ ret # 0

\* C7: the stored ratio is at least 1 after construction and after setRatio,
\* setParameters, setRatioPreset and updateFromNormalizedParameters.
StoredRatioAtLeastOne == ratio >= 1 * Milli

\* C8: setAttack, setRelease and setParameters store a time greater than 0.
StoredTimesPositive ==
    /\ lastCall \in {"setAttack", "setParameters"} => attack > 0
    /\ lastCall \in {"setRelease", "setParameters"} => release > 0

\* C9 (as written): whenever processSample runs the two coefficients are the
\* ones derived from the stored attack, release and sample rate.
CoefficientsAlwaysFresh == lastCall = "processSample" => Fresh

\* C9 (amended): once prepareToPlay has been called, and while the stored
\* sample rate is positive, the two coefficients are the ones derived from
\* the stored attack, release and sample rate.
CoefficientsFreshOncePrepared == prepared /\ sampleRate > 0 => Fresh

\* a sample processed after the attack time was changed on a prepared
\* compressor
ProcessedAfterRetune ==
    /\ lastCall = "processSample"
    /\ prepared
    /\ sampleRate > 0
    /\ attack = 0
    /\ release = 100 * Milli
    /\ attackCoeff = 889197

\* the starting point of C10: ratio 1, prepared, envelope 0, and a finite
\* sample of magnitude at most 1 processed in this step
UnityRatioStep ==
    /\ lastCall' = "processSample"
    /\ prepared
    /\ ratio = 1 * Milli
    /\ envelope = 0
    /\ lastInput'.kind = "finite"
    /\ Abs(lastInput'.v) <= One

\* C10 (as written): at ratio 1 the envelope stays 0 and the sample comes
\* back multiplied by the linear makeup gain.
UnityRatioIsMakeupOnly ==
    [][UnityRatioStep
         => /\ envelope' = 0
            /\ ret' = FMul(lastInput'.v, DbToLin(makeupGain))]_vars

\* C10 (amended): at ratio 1 the envelope stays 0 and the sample comes back
\* multiplied by the linear gain of the makeup gain clamped to -60..+20 dB;
\* a product above 0.95 in magnitude comes back as 0.95 * tanh(product / 2).
UnityRatioIsMakeupThenLimiter ==
    [][UnityRatioStep
         => /\ envelope' = 0
            /\ LET gain == DbToLin(jlimit(-60 * Milli, 20 * Milli, makeupGain))
                   y == FMul(lastInput'.v, gain)
               IN ret' = IF Abs(y) > 950000
                         THEN FMul(Tanh(FMul(y, 500000)), 950000)
                         ELSE y]_vars

\* a quiet sample above the threshold passed at ratio 1 with 6 dB of makeup
UnityRatioMakeupApplied ==
    /\ lastCall = "processSample"
    /\ prepared
    /\ ratio = 1 * Milli
    /\ threshold = -30 * Milli       \* the sample is above the threshold
    /\ makeupGain = 6 * Milli
    /\ lastInput = Fin(50000)
    /\ envelope = 0
    /\ ret = 99763

\* the level line 61 leaves for the sample last processed
LastLevel == InputLevel(lastInput)

\* target is x - x/rat for x = over, to the rounding of the division
IsOverMinusOverByRatio(reduction, over, rat) ==
    2 * Abs(reduction * rat - over * (rat - 1 * Milli)) <= rat

\* C11 (as written): the target gain reduction is 0 when the level is at or
\* below the threshold, and positive and equal to e - e/ratio when the level
\* is e > 0 above the threshold and the ratio is above 1.
TargetAtThreshold ==
    lastCall = "processSample" /\ isfinite(lastInput)
      => /\ LastLevel <= threshold => targetGainReduction = 0
         /\ LastLevel > threshold /\ ratio > 1 * Milli
              => /\ targetGainReduction > 0
                 /\ IsOverMinusOverByRatio(targetGainReduction,
                                           LastLevel - threshold, ratio)

\* C11 (amended): the target gain reduction is 0 when the level is at or
\* below the threshold, and positive and equal to the smaller of e - e/ratio
\* and 60 dB when the level is e > 0 above the threshold and the ratio is
\* above 1.
TargetAtThresholdCapped ==
    lastCall = "processSample" /\ isfinite(lastInput)
      => /\ LastLevel <= threshold => targetGainReduction = 0
         /\ LastLevel > threshold /\ ratio > 1 * Milli
              => /\ targetGainReduction > 0
                 /\ targetGainReduction <= 60 * Milli
                 /\ \/ IsOverMinusOverByRatio(targetGainReduction,
                                              LastLevel - threshold, ratio)
                    \/ /\ targetGainReduction = 60 * Milli
                       /\ (LastLevel - threshold) * (ratio - 1 * Milli)
                            >= 60 * Milli * ratio

\* a sample whose level is the threshold exactly
LevelAtThreshold ==
    /\ lastCall = "processSample"
    /\ lastInput = Fin(100000)
    /\ LastLevel = threshold
    /\ ratio = 4 * Milli
    /\ targetGainReduction = 0

\* C12 (as written): above the threshold the target gain reduction is
\* overThreshold - overThreshold/ratio; 15 dB for ratio 4 and 20 dB over.
TargetIsOverMinusOverByRatio ==
    lastCall = "processSample" /\ isfinite(lastInput) /\ LastLevel > threshold
      => /\ IsOverMinusOverByRatio(targetGainReduction,
                                   LastLevel - threshold, ratio)
         /\ ratio = 4 * Milli /\ LastLevel - threshold = 20 * Milli
              => targetGainReduction = 15 * Milli

\* C12 (amended): above the threshold the target gain reduction is the
\* smaller of overThreshold - overThreshold/r and 60 dB, r being the ratio
\* or 1 if the ratio is below 1; 15 dB for ratio 4 and 20 dB over.
TargetIsOverMinusOverByFlooredRatio ==
    lastCall = "processSample" /\ isfinite(lastInput) /\ LastLevel > threshold
      => LET over == LastLevel - threshold
             r == IF ratio < 1 * Milli THEN 1 * Milli ELSE ratio
         IN /\ targetGainReduction >= 0
            /\ targetGainReduction <= 60 * Milli
            /\ \/ IsOverMinusOverByRatio(targetGainReduction, over, r)
               \/ /\ targetGainReduction = 60 * Milli
                  /\ over * (r - 1 * Milli) >= 60 * Milli * r
            /\ ratio = 4 * Milli /\ over = 20 * Milli
                 => targetGainReduction = 15 * Milli

\* ratio 4 and a full-scale sample 20 dB over the threshold
TwentyOverAtRatioFour ==
    /\ lastCall = "processSample"
    /\ lastInput = Fin(One)
    /\ threshold = -20 * Milli
    /\ ratio = 4 * Milli
    /\ targetGainReduction = 15 * Milli

\* C13: on a prepared Compressor fed one amplitude above the threshold from
\* envelope 0, after every processSample the envelope is no smaller than
\* before and no larger than the target gain reduction for that level.
EnvelopeRisesWithoutOvershoot ==
    [][lastCall' = "processSample"
         => /\ envelope <= envelope'
            /\ envelope' <= targetGainReduction']_vars

\* a hundred samples into the tone the envelope is part of the way up
EnvelopeRising ==
    /\ lastCall = "processSample"
    /\ nSamples = 100
    /\ envelope > 5 * Milli
    /\ envelope < targetGainReduction

\* the scenario of C15: the default parameters, prepared at 44100 Hz, and
\* samples of amplitude 1 so far
UnitToneAtDefaults ==
    /\ params = <<-20 * Milli, 4 * Milli, 10 * Milli, 100 * Milli, 0>>
    /\ prepared
    /\ sampleRate = 44100
    /\ lastCall = "processSample"
    /\ lastInput.kind = "finite"
    /\ Abs(lastInput.v) = One

\* C15: with threshold -20, ratio 4, attack 10 ms, release 100 ms, makeup 0
\* and a sample rate of 44100, a tone of amplitude 1 takes the envelope above
\* 14.85 dB within 1000 samples and never above 15 dB.
EnvelopeNearTargetInThousand ==
    UnitToneAtDefaults
      => /\ envelope > 0
         /\ envelope <= 15 * Milli
         /\ nSamples >= 1000 => envelope > 14850

\* the thousandth sample of the tone
ThousandthSample ==
    /\ UnitToneAtDefaults
    /\ nSamples = 1000
    /\ envelope > 14850
    /\ envelope < 15 * Milli

\* the smallest envelope whose release step, releaseCoeff * envelope, is at
\* least half a unit of the envelope's resolution and so does not round to 0
StallLevel == (500000 + releaseCoeff - 1) \div releaseCoeff

Normalized == lastCall = "updateFromNormalizedParameters"

\* C16: updateFromNormalizedParameters stores threshold = -60 + 60 *
\* thresholdNorm, within -60..0 dB, and ratio = 1 + 19 * ratioNorm, within
\* 1..20, for normalized values between 0 and 1; the values (0.5, 0, 0, 0, 0)
\* leave threshold -30 and ratio 1.
NormalizedThresholdAndRatio ==
    Normalized
      => /\ threshold = -60 * Milli + 60 * lastNorm[1]
         /\ ratio = 1 * Milli + 19 * lastNorm[2]
         /\ -60 * Milli <= threshold /\ threshold <= 0
         /\ 1 * Milli <= ratio /\ ratio <= 20 * Milli
         /\ lastNorm[1] = 0 => threshold = -60 * Milli
         /\ lastNorm[1] = 1000 => threshold = 0
         /\ lastNorm[2] = 0 => ratio = 1 * Milli
         /\ lastNorm[2] = 1000 => ratio = 20 * Milli
         /\ lastNorm = <<500, 0, 0, 0, 0>>
              => threshold = -30 * Milli /\ ratio = 1 * Milli

\* updateFromNormalizedParameters(0.5, 0, 0, 0, 0) on a used Compressor
HalfThresholdNormalized ==
    /\ Normalized
    /\ lastNorm = <<500, 0, 0, 0, 0>>
    /\ threshold = -30 * Milli
    /\ ratio = 1 * Milli
    /\ nSamples > 0

\* C17: updateFromNormalizedParameters stores a makeup gain that is 0 dB for
\* makeupNorm = 0 and negative for no normalized value between 0 and 1.
NormalizedMakeupFromZero ==
    Normalized
      => /\ makeupGain >= 0
         /\ lastNorm[5] = 0 => makeupGain = 0

\* C18 (as written): the five parameters and both coefficients left by
\* updateFromNormalizedParameters are those of the normalized values and the
\* sample rate whatever the coefficients were before, a second call with the
\* same values changes nothing, and the envelope is never changed.
NormalizedIgnoresHistory ==
    [][lastCall' = "updateFromNormalizedParameters"
         => /\ params' = NormalizedParameters(lastNorm')
            /\ \A old \in { 0, 1000, 999000 } :
                  /\ attackCoeff' = UpdatedCoeff(attack', sampleRate', old)
                  /\ releaseCoeff' = UpdatedCoeff(release', sampleRate', old)
            /\ Normalized /\ lastNorm' = lastNorm
                 => UNCHANGED <<params, coeffs>>
            /\ UNCHANGED envelope]_vars

\* C18 (amended): the five parameters left by updateFromNormalizedParameters
\* are those of the normalized values; with a positive sample rate both
\* coefficients are the ones derived from the new times and the rate, with a
\* rate of zero or less they are left as they were; a second call with the
\* same values changes nothing, and the envelope is never changed.
NormalizedIsIdempotent ==
    [][lastCall' = "updateFromNormalizedParameters"
         => /\ params' = NormalizedParameters(lastNorm')
            /\ IF sampleRate > 0
               THEN /\ attackCoeff' = Coefficient(attack', sampleRate)
                    /\ releaseCoeff' = Coefficient(release', sampleRate)
               ELSE UNCHANGED coeffs
            /\ Normalized /\ lastNorm' = lastNorm
                 => UNCHANGED <<params, coeffs>>
            /\ UNCHANGED <<envelope, sampleRate>>]_vars

\* a normalized update of a Compressor in use, with a raised envelope, that
\* moved the attack time to its upper end
NormalizedInUse ==
    /\ Normalized
    /\ lastNorm[3] = 1000
    /\ attack = 400 * Milli
    /\ sampleRate > 0
    /\ attackCoeff = Coefficient(attack, sampleRate)
    /\ envelope > 0

\* the k-th sample of the buffer b in the order channel 0's samples, then
\* channel 1's, and so on (k from 1)
SampleInOrder(b, k) ==
    b[((k - 1) \div NumSamples(b)) + 1][((k - 1) % NumSamples(b)) + 1]

\* the envelope after processSample on the first k samples in that order
RECURSIVE EnvelopeAfter(_, _, _)
EnvelopeAfter(b, env, k) ==
    IF k = 0
    THEN env
    ELSE SampleEnvelope(SampleInOrder(b, k), EnvelopeAfter(b, env, k - 1))

\* C19: processBuffer leaves a buffer of the same shape in which every
\* sample is what processSample returns for it when the samples are given to
\* processSample one by one, channel 0's in index order, then channel 1's,
\* and leaves the envelope those calls leave.
BufferIsSamplesInChannelOrder ==
    [][lastCall' = "processBuffer"
         => LET b == bufferIn'
                n == NumSamples(b)
            IN /\ Len(buffer') = Len(b)
               /\ \A c \in 1..Len(b) :
                     /\ Len(buffer'[c]) = n
                     /\ \A i \in 1..n :
                           buffer'[c][i] =
                             Fin(SampleOutput(b[c][i],
                                   EnvelopeAfter(b, envelope, (c - 1) * n + i)))
               /\ envelope' = EnvelopeAfter(b, envelope, Len(b) * n)]_vars

\* a stereo buffer of two audible samples a channel was processed and the
\* envelope rose from sample to sample
StereoBufferProcessed ==
    /\ lastCall = "processBuffer"
    /\ bufferIn = << <<Fin(500000), Fin(500000)>>, <<Fin(500000), Fin(500000)>> >>
    /\ buffer[1][1].v > buffer[1][2].v
    /\ buffer[1][2].v > buffer[2][1].v
    /\ buffer[2][1].v > buffer[2][2].v
    /\ envelope > 0

\* C20: the samples processBuffer writes to a channel are the same for every
\* buffer of that shape with the same samples in that channel, given the
\* state at the start of the call.
ChannelsIndependent ==
    [][lastCall' = "processBuffer"
         => \A c \in 1..Len(bufferIn') :
              \A other \in Buffers :
                 /\ Len(other) = Len(bufferIn')
                 /\ other[c] = bufferIn'[c]
                 => ProcessChannels(other, envelope).data[c] = buffer'[c]]_vars


\* C21: while prepareToPlay has never been called, processSample of a finite
\* input leaves the envelope at 0 and, with a makeup gain of 0 dB, returns
\* its input.
UnpreparedIsPassThrough ==
    (~prepared /\ lastCall = "processSample" /\ isfinite(lastInput))
      => /\ envelope = 0
         /\ makeupGain = 0 => lastInput.kind = "finite" /\ ret = lastInput.v


\* C22: while a setter of the control thread and processSample of the audio
\* thread interleave member by member, the envelope is within 0..60 dB at
\* every moment and every sample returned is within the limiter bound.
RaceKeepsLimits ==
    /\ 0 <= envelope
    /\ envelope <= 60 * Milli
    /\ lastCall = "processSample" => Abs(ret) <= 950000

\* a sample was returned whose coefficient was read between the two writes
\* updateCoefficients makes to it, threshold and ratio coming from a
\* setParameters still in progress
SampleAcrossUpdate ==
    /\ lastCall = "processSample"
    /\ audio.pc = "idle"
    /\ audio.coeffReadAt \in {"260", "263", "264"}
    /\ control.pc # "idle"
    /\ envelope > 0
    /\ ret # 0


\* C23: in every processSample call on a finite input the gain in dB,
\* -envelope + makeupGain limited to -60..+20, converts to a multiplier
\* within 0.001..10, and the sample returned is the soft-limited product of
\* the input and that multiplier.
GainStageBounded ==
    [][lastCall' = "processSample" /\ lastInput'.kind = "finite"
         => LET gainInDb == jlimit(-60 * Milli, 20 * Milli,
                                   -envelope' + makeupGain)
                gain == CompressedGain(envelope', makeupGain)
            IN /\ gain = jlimit(1000, 10 * One, DbToLin(gainInDb))
               /\ 1000 <= gain
               /\ gain <= 10 * One
               /\ ret' = softLimit(FMul(lastInput'.v, gain))]_vars

\* a sample was multiplied by 10: 30 dB of makeup less a raised envelope is
\* still above the +20 dB limit
GainAtUpperLimit ==
    /\ lastCall = "processSample"
    /\ lastInput = Fin(50000)
    /\ makeupGain = 30 * Milli
    /\ envelope > 0
    /\ CompressedGain(envelope, makeupGain) = 10 * One
    /\ ret = 500000


\* both coefficients are strictly between 0 and 1
CoefficientsInside ==
    /\ 0 < attackCoeff /\ attackCoeff < One
    /\ 0 < releaseCoeff /\ releaseCoeff < One

\* C24: prepareToPlay with a positive sample rate leaves both coefficients
\* strictly between 0 and 1, and no call made after that takes either of
\* them out of that interval, whatever attack and release are stored.
CoefficientsStayInside ==
    [][/\ lastCall' = "prepareToPlay" /\ sampleRate' > 0 => CoefficientsInside'
       /\ CoefficientsInside => CoefficientsInside']_vars

\* a negative release time was set on a Compressor prepared at 44100 Hz
\* whose attack time is 0
NegativeReleaseSet ==
    /\ lastCall = "setRelease"
    /\ prepared
    /\ sampleRate > 0
    /\ release = -5 * Milli
    /\ attack = 0
    /\ releaseCoeff = 889197
    /\ attackCoeff = 889197


\* C25: setThreshold, setRatio and setMakeupGain change the one parameter
\* they store and nothing else: both coefficients, the envelope and the
\* other four parameters are as before the call, in every state.
SettersChangeOneParameter ==
    [][/\ lastCall' = "setThreshold"
            => UNCHANGED <<ratio, attack, release, makeupGain, coeffs, envelope>>
       /\ lastCall' = "setRatio"
            => UNCHANGED <<threshold, attack, release, makeupGain, coeffs,
                           envelope>>
       /\ lastCall' = "setMakeupGain"
            => UNCHANGED <<threshold, ratio, attack, release, coeffs,
                           envelope>>]_vars


\* C26: the target gain reduction of every processSample call on a finite
\* input is within 0..60 dB, and it is 0 when the stored ratio is 1 or less.
TargetWithinLimits ==
    lastCall = "processSample" /\ isfinite(lastInput)
      => /\ 0 <= targetGainReduction
         /\ targetGainReduction <= 60 * Milli
         /\ ratio <= 1 * Milli => targetGainReduction = 0

\* a full-scale sample, 60 dB above the threshold, met a stored ratio of 0.5
RatioBelowOneMet ==
    /\ lastCall = "processSample"
    /\ lastInput = Fin(One)
    /\ threshold = -60 * Milli
    /\ ratio = 500
    /\ LastLevel - threshold = 60 * Milli
    /\ targetGainReduction = 0

\* C27: softLimit is monotonically non-decreasing: of two consecutive
\* samples that reach the limiter unscaled (envelope 0, makeup 0 dB, so the
\* pre-limiter sample is the input), the one that is not smaller never comes
\* out smaller.
SoftLimitMonotone ==
    [][(/\ lastCall = "processSample" /\ lastCall' = "processSample"
        /\ envelope = 0 /\ envelope' = 0 /\ makeupGain = 0
        /\ lastInput.v <= lastInput'.v)
          => ret <= ret']_vars

\* C28: setRatioPreset(i) with i in 0..7 stores the i-th preset, for which
\* getRatioPresetIndex returns i; with i outside 0..7 it leaves every field
\* unchanged; and getRatioPresetIndex returns 3 when the ratio is within 0.1
\* of no preset.
PresetRoundTrip ==
    [][/\ \A i \in 0..7 :
             setRatioPreset(i)
               => /\ ratio' = ratioPresets[i + 1]
                  /\ RatioPresetIndex(ratio') = i
       /\ \A i \in PresetIndices \ (0..7) :
             setRatioPreset(i)
               => UNCHANGED <<params, coeffs, envelope, sampleRate>>
       /\ getRatioPresetIndex
            => /\ (\A i \in 0..7 : ratio = ratioPresets[i + 1] => ret' = i)
               /\ (\A i \in 0..7 : Abs(ratio - ratioPresets[i + 1]) >= 100)
                    => ret' = 3]_vars

\* getRatioPresetIndex returned 6 for the ratio 10, which only
\* setRatioPreset(6) stores
PresetIndexReturned ==
    /\ lastCall = "getRatioPresetIndex"
    /\ ratio = 10 * Milli
    /\ ret = 6

\* C29: after the process call that follows the selection of the item N:1 of
\* the ratio combo box, the Compressor holds the ratio N (to within 0.019,
\* one step of the normalized value over the range 1..20).
ComboRatioStored ==
    \A id \in ComboIds :
        lastCall = "process" /\ state[2] = ComboNormalized(id)
          => Abs(ratio - ratioPresets[id]) <= 19

\* C30: after a process call made with every host parameter at its declared
\* default, the Compressor stores threshold -20, ratio 4, attack 10,
\* release 100 and makeup gain 0 (each to within 0.4, one step of the
\* normalized value over the widest range).
HostDefaultsStored ==
    lastCall = "process" /\ state = ParameterDefaults
      => \A i \in 1..5 : Abs(params[i] - ParameterDefaultValues[i]) <= 400

=============================================================================
